---- MODULE Spec2Model ----
(***************************************************************************)
(* Validated record-edit submission of a species record.                   *)
(*                                                                         *)
(* Two components are modelled, each from its own source file:             *)
(*   SpeciesCard        src/app/species/species-card.tsx                   *)
(*   EditSpeciesDialog  src/app/species/edit-species-card.tsx              *)
(* A run mounts one of them over one record of the species table and then  *)
(* lets the user type into the form, press the buttons and submit, while   *)
(* the persistence collaborator answers the update requests.               *)
(*                                                                         *)
(* JavaScript values are tagged records: undefined, null, a string (a      *)
(* sequence of characters), a number (kept in halves, so that 1.5 is a     *)
(* value and "integer" is a property a number can lack) and a kingdom      *)
(* name.                                                                   *)
(***************************************************************************)
EXTENDS Integers, Sequences, FiniteSets, TLC

(* ------------------------------------------------------------------ *)
(* Bounds of the model.                                                *)
(* ------------------------------------------------------------------ *)
\* longest text the user types into a text field
MaxLen == 2
\* largest population the user types (whole units)
MaxPop == 2
\* number of field changes in one run
MaxEdits == 1
\* number of times the submit button is pressed in one run
MaxSubmits == 2

(* ------------------------------------------------------------------ *)
(* JavaScript values.                                                  *)
(* ------------------------------------------------------------------ *)
Undefined == [t |-> "undefined"]
Null == [t |-> "null"]
Str(s) == [t |-> "string", s |-> s]
\* a number n is kept as h = 2 * n
Num(h) == [t |-> "number", h |-> h]
Kingdom(k) == [t |-> "kingdom", k |-> k]

Space == " "
\* the characters typed into a name or a description, and into the image URL
TextChars == {Space, "a"}
UrlChars == {Space, "a", ":"}

IsNullish(v) == v.t \in {"undefined", "null"}

\* String.prototype.trim on a sequence of characters
RECURSIVE TrimStart(_)
TrimStart(s) ==
    IF s # <<>> /\ Head(s) = Space THEN TrimStart(Tail(s)) ELSE s

RECURSIVE TrimEnd(_)
TrimEnd(s) ==
    IF s # <<>> /\ s[Len(s)] = Space THEN TrimEnd(SubSeq(s, 1, Len(s) - 1)) ELSE s

Trim(s) == TrimEnd(TrimStart(s))

\* val?.trim(): undefined for null and undefined, the trimmed string otherwise
OptTrim(v) == IF IsNullish(v) THEN Undefined ELSE Str(Trim(v.s))

\* the truthiness a || b tests: "", 0, null and undefined are falsy
Falsy(v) ==
    \/ IsNullish(v)
    \/ v.t = "string" /\ v.s = <<>>
    \/ v.t = "number" /\ v.h = 0

\* a || b
Or(a, b) == IF Falsy(a) THEN b ELSE a

\* +event.target.value: the empty string converts to 0, a numeral to its number
UnaryPlus(v) == IF v.t = "string" THEN Num(0) ELSE v

\* new URL(s) succeeds: surrounding spaces are stripped, then a scheme (letters)
\* and a colon must open the text; whatever follows is an opaque path
IsURL(s) ==
    LET u == Trim(s) IN
    \E i \in 2..Len(u) : u[i] = ":" /\ \A j \in 1..(i - 1) : u[j] = "a"

(* ------------------------------------------------------------------ *)
(* speciesSchema: per field, whether zod accepts the value and what it *)
(* hands on.                                                           *)
(* ------------------------------------------------------------------ *)
kingdoms == {"Animalia", "Plantae", "Fungi", "Protista", "Archaea", "Bacteria"}

Fields ==
    {"scientific_name", "common_name", "kingdom", "total_population", "image", "description"}
TextFields == {"scientific_name", "common_name", "image", "description"}

\* z.string().nullable()
NullableTextOk(v) == v.t \in {"string", "null"}

\* NullableTextOut with the second trim forgotten: a blank text becomes null, any
\* other text is handed on as typed
NullableTextOutUntrimmed(v) == IF OptTrim(v) = Str(<<>>) THEN Null ELSE v

\* .transform((val) => (val?.trim() === "" ? null : val?.trim()))
NullableTextOut(v) == IF OptTrim(v) = Str(<<>>) THEN Null ELSE OptTrim(v)

\* kingdom: kingdoms
KingdomOk(v) == v.t = "kingdom" /\ v.k \in kingdoms

\* z.string().trim().min(1)
ScientificNameOk(v) == v.t = "string" /\ Len(Trim(v.s)) >= 1

\* .trim() ... .transform((val) => val?.trim())
ScientificNameOut(v) == OptTrim(Str(Trim(v.s)))

\* z.number().int().positive().min(1).optional()
TotalPopulationOk(v) ==
    \/ v = Undefined
    \/ v.t = "number" /\ v.h % 2 = 0 /\ v.h > 0 /\ v.h >= 2

\* z.string().url().nullable()
ImageOk(v) == v = Null \/ (v.t = "string" /\ IsURL(v.s))

\* .transform((val) => val?.trim())
ImageOut(v) == OptTrim(v)

FieldOk(f, v) ==
    CASE f = "common_name" -> NullableTextOk(v)
      [] f = "description" -> NullableTextOk(v)
      [] f = "kingdom" -> KingdomOk(v)
      [] f = "scientific_name" -> ScientificNameOk(v)
      [] f = "total_population" -> TotalPopulationOk(v)
      [] f = "image" -> ImageOk(v)

FieldOut(f, v) ==
    CASE f = "common_name" -> NullableTextOut(v)
      [] f = "description" -> NullableTextOut(v)
      [] f = "kingdom" -> v
      [] f = "scientific_name" -> ScientificNameOut(v)
      [] f = "total_population" -> v
      [] f = "image" -> ImageOut(v)

\* speciesSchema.safeParse(values): the fields with an issue, and the parsed data
SchemaIssues(vals) == {f \in Fields : ~FieldOk(f, vals[f])}
SchemaData(vals) == [f \in Fields |-> FieldOut(f, vals[f])]

(* ------------------------------------------------------------------ *)
(* The species table and the two components' state.                    *)
(* ------------------------------------------------------------------ *)
Uuid(x) == [t |-> "uuid", id |-> x]

Ids == {1, 2, 3}

\* the table before the run: records 1 and 2 have the same owner; record 2 has no
\* population and record 3 no image
SeedTable ==
    [i \in Ids |->
        CASE i = 1 ->
               [id |-> Uuid(1), userId |-> Uuid("u1"), author |-> Uuid("u1"),
                scientific_name |-> Str(<<"a">>), common_name |-> Null,
                kingdom |-> Kingdom("Animalia"), total_population |-> Num(2),
                image |-> Str(<<"a", ":">>), description |-> Str(<<"a">>)]
          [] i = 2 ->
               [id |-> Uuid(2), userId |-> Uuid("u1"), author |-> Uuid("u1"),
                scientific_name |-> Str(<<"a", "a">>), common_name |-> Str(<<"a">>),
                kingdom |-> Kingdom("Plantae"), total_population |-> Null,
                image |-> Str(<<"a", ":">>), description |-> Null]
          [] i = 3 ->
               [id |-> Uuid(3), userId |-> Uuid("u2"), author |-> Uuid("u2"),
                scientific_name |-> Str(<<"a">>), common_name |-> Null,
                kingdom |-> Kingdom("Fungi"), total_population |-> Num(4),
                image |-> Null, description |-> Str(<<"a">>)]]

\* the messages the persistence collaborator may answer an update with
ErrorMessages == {"network unreachable", "permission denied"}

VARIABLES
    component,  \* which component is mounted
    species,    \* the id of the record passed to it
    userId,     \* SpeciesCard's second parameter
    open,       \* useState(false): the details flag
    edit,       \* useState(false): the edit flag
    values,     \* the form's field values
    errors,     \* the fields showing a validation message
    table,      \* the species table of the persistence collaborator
    requests,   \* the update requests sent, each with its answer once it has one
    toasts,     \* the notifications shown
    refreshes,  \* the calls of router.refresh()
    edits       \* the field changes made so far

vars ==
    <<component, species, userId, open, edit, values, errors, table, requests,
      toasts, refreshes, edits>>

\* the record passed at mount
Prop == SeedTable[species]

\* useForm: SpeciesCard passes no defaultValues, EditSpeciesDialog fills every
\* field from the record, with "" for what the record lacks
DefaultValues(c, row) ==
    IF c = "SpeciesCard"
    THEN [f \in Fields |-> Undefined]
    ELSE [f \in Fields |->
            IF f = "kingdom" THEN row.kingdom ELSE Or(row[f], Str(<<>>))]

\* useForm's resolver: SpeciesCard passes none, so every value passes as it is;
\* EditSpeciesDialog passes zodResolver(speciesSchema). (edit-species-card.tsx
\* names zodResolver and useEffect without importing them; they are taken to be
\* the functions of @hookform/resolvers/zod and of react.)
ResolverIssues(c, vals) == IF c = "SpeciesCard" THEN {} ELSE SchemaIssues(vals)
ResolverData(c, vals) == IF c = "SpeciesCard" THEN vals ELSE SchemaData(vals)

\* <Dialog open={edit}> in SpeciesCard, <Dialog open={true}> in EditSpeciesDialog
EditDialogShown == IF component = "SpeciesCard" THEN edit ELSE TRUE

\* <Input value={value ?? ""} />: the text a field shows
Displayed(v) == IF IsNullish(v) THEN Str(<<>>) ELSE v

\* <Dialog open={open}>: only SpeciesCard renders a details dialog
DetailsDialogShown == component = "SpeciesCard" /\ open

Init ==
    /\ component \in {"SpeciesCard", "EditSpeciesDialog"}
    /\ species \in Ids
    /\ userId = SeedTable[species].userId
    /\ open = FALSE
    /\ edit = FALSE
    /\ values = DefaultValues(component, SeedTable[species])
    /\ errors = {}
    /\ table = SeedTable
    /\ requests = <<>>
    /\ toasts = <<>>
    /\ refreshes = 0
    /\ edits = 0

(* ------------------------------------------------------------------ *)
(* What the user can type.                                             *)
(* ------------------------------------------------------------------ *)
TextsOver(chars) == UNION {[1..n -> chars] : n \in 0..MaxLen}
TypedInto(f) == IF f = "image" THEN TextsOver(UrlChars) ELSE TextsOver(TextChars)

\* the value of the <input type="number">: empty, or a numeral
NumberInputs == {Str(<<>>)} \cup {Num(h) : h \in (-2)..(2 * MaxPop)}

(* ------------------------------------------------------------------ *)
(* The dialogs' buttons.                                               *)
(* ------------------------------------------------------------------ *)
\* <Button onClick={() => setOpen(true)}>Learn More</Button>
LearnMore ==
    /\ component = "SpeciesCard"
    /\ open' = TRUE
    /\ UNCHANGED <<component, species, userId, edit, values, errors, table, requests,
                   toasts, refreshes, edits>>

\* <Dialog open={open} onOpenChange={setOpen}>: the details dialog is dismissed
DismissDetails ==
    /\ DetailsDialogShown
    /\ open' = FALSE
    /\ UNCHANGED <<component, species, userId, edit, values, errors, table, requests,
                   toasts, refreshes, edits>>

\* <Button variant="secondary" onClick={() => setEdit(true)}>Edit</Button>
EditClick ==
    /\ component = "SpeciesCard"
    /\ edit' = TRUE
    /\ UNCHANGED <<component, species, userId, open, values, errors, table, requests,
                   toasts, refreshes, edits>>

\* <Dialog ... onOpenChange={setEdit}>: the edit dialog is dismissed
DismissEdit ==
    /\ EditDialogShown
    /\ edit' = FALSE
    /\ UNCHANGED <<component, species, userId, open, values, errors, table, requests,
                   toasts, refreshes, edits>>

\* <Button type="button" onClick={() => setEdit(false)}>Cancel</Button>
Cancel ==
    /\ EditDialogShown
    /\ edit' = FALSE
    /\ UNCHANGED <<component, species, userId, open, values, errors, table, requests,
                   toasts, refreshes, edits>>

(* ------------------------------------------------------------------ *)
(* The form's fields. mode: "onChange" runs the resolver on a change   *)
(* and shows or clears the changed field's message.                    *)
(* ------------------------------------------------------------------ *)
FieldChange(f, v) ==
    /\ EditDialogShown
    /\ edits < MaxEdits
    /\ values' = [values EXCEPT ![f] = v]
    /\ errors' = IF f \in ResolverIssues(component, values')
                 THEN errors \cup {f}
                 ELSE errors \ {f}
    /\ edits' = edits + 1
    /\ UNCHANGED <<component, species, userId, open, edit, table, requests, toasts,
                   refreshes>>

\* <Input {...field} /> and <Textarea {...rest} />
ChangeText == \E f \in TextFields : \E s \in TypedInto(f) : FieldChange(f, Str(s))

\* onValueChange={(value) => field.onChange(kingdoms.parse(value))}
ChangeKingdom == \E k \in kingdoms : FieldChange("kingdom", Kingdom(k))

\* onChange={(event) => field.onChange(+event.target.value)}
ChangePopulation == \E v \in NumberInputs : FieldChange("total_population", UnaryPlus(v))

(* ------------------------------------------------------------------ *)
(* onSubmit: the update request.                                       *)
(* ------------------------------------------------------------------ *)
\* SpeciesCard.onSubmit: .update([{ author: userId, ...input fields }])
CardPayload(input, uid) ==
    [author |-> uid,
     common_name |-> input.common_name,
     description |-> input.description,
     kingdom |-> input.kingdom,
     scientific_name |-> input.scientific_name,
     total_population |-> input.total_population,
     image |-> input.image]

\* EditSpeciesDialog.onSubmit: .update([{ common_name: input.common_name || null, ... }])
EditPayload(input) ==
    [common_name |-> Or(input.common_name, Null),
     description |-> Or(input.description, Null),
     kingdom |-> input.kingdom,
     scientific_name |-> Or(input.scientific_name, Null),
     total_population |-> Or(input.total_population, Null),
     image |-> Or(input.image, Null)]

\* .eq("userId", userId) in SpeciesCard, .eq("species", species.id) in EditSpeciesDialog
CardFilter(uid) == [column |-> "userId", equals |-> uid]
EditFilter(row) == [column |-> "species", equals |-> row.id]

\* the request onSubmit sends for the form values vals
UpdateRequest(c, vals) ==
    LET input == ResolverData(c, vals) IN
    [values |-> vals,
     input |-> input,
     payload |-> IF c = "SpeciesCard" THEN CardPayload(input, userId) ELSE EditPayload(input),
     filter |-> IF c = "SpeciesCard" THEN CardFilter(userId) ELSE EditFilter(Prop),
     status |-> "pending"]

\* Submit with a submitting lock: nothing is sent while a request is unanswered
SubmitLocked ==
    /\ EditDialogShown
    /\ IF ResolverIssues(component, values) # {}
       THEN /\ errors' = ResolverIssues(component, values)
            /\ UNCHANGED requests
       ELSE /\ Len(requests) < MaxSubmits
            /\ \A i \in 1..Len(requests) : requests[i].status # "pending"
            /\ requests' = Append(requests, UpdateRequest(component, values))
            /\ errors' = {}
    /\ UNCHANGED <<component, species, userId, open, edit, values, table, toasts,
                   refreshes, edits>>

\* form.handleSubmit(onSubmit): the resolver decides; with issues the messages are
\* shown and onSubmit is not called, without issues onSubmit sends the update
Submit ==
    /\ EditDialogShown
    /\ IF ResolverIssues(component, values) # {}
       THEN /\ errors' = ResolverIssues(component, values)
            /\ UNCHANGED requests
       ELSE /\ Len(requests) < MaxSubmits
            /\ requests' = Append(requests, UpdateRequest(component, values))
            /\ errors' = {}
    /\ UNCHANGED <<component, species, userId, open, edit, values, table, toasts,
                   refreshes, edits>>

(* ------------------------------------------------------------------ *)
(* The persistence collaborator.                                       *)
(* ------------------------------------------------------------------ *)
\* the column "species" of EditSpeciesDialog's filter addresses the record by its
\* own identifier
SpeciesColumn(row) == row.id

\* the value of the column a filter names
ColumnValue(row, column) ==
    IF column = "species" THEN SpeciesColumn(row) ELSE row[column]

\* the row after the update: a key whose value is undefined is not sent
Patch(row, payload) ==
    [c \in DOMAIN row |->
        IF c \in DOMAIN payload /\ payload[c] # Undefined THEN payload[c] ELSE row[c]]

\* update(payload).eq(column, equals): every row the filter matches is patched
ApplyUpdate(tbl, req) ==
    [i \in Ids |->
        IF ColumnValue(tbl[i], req.filter.column) = req.filter.equals
        THEN Patch(tbl[i], req.payload)
        ELSE tbl[i]]

(* ------------------------------------------------------------------ *)
(* onSubmit after the await.                                           *)
(* ------------------------------------------------------------------ *)
\* ErrorToast with the title repeated where the backend's message belongs
ErrorToastGeneric(message) ==
    [title |-> "Something went wrong.", description |-> "Something went wrong.",
     variant |-> "destructive"]

\* toast({ title, description: error.message, variant })
ErrorToast(message) ==
    [title |-> "Something went wrong.", description |-> message, variant |-> "destructive"]

\* if (error) { return toast(...) }
AfterError(message) ==
    /\ toasts' = Append(toasts, ErrorToast(message))
    /\ UNCHANGED <<open, values, errors, refreshes>>

\* SpeciesCard: form.reset(input); setOpen(false); router.refresh()
CardAfterSuccess(input) ==
    /\ values' = input
    /\ errors' = {}
    /\ open' = FALSE
    /\ refreshes' = refreshes + 1
    /\ UNCHANGED toasts

\* EditSpeciesDialog: form.reset(input) is commented out, and the useEffect(...)
\* that follows is called from the handler, outside a render, where a hook call
\* throws: setOpen(false) and router.refresh() after it are never reached
EditAfterSuccess ==
    UNCHANGED <<open, values, errors, refreshes, toasts>>

\* the collaborator answers request i, and onSubmit resumes
Respond(i, answer) ==
    /\ requests[i].status = "pending"
    /\ requests' = [requests EXCEPT ![i].status = answer]
    /\ IF answer = "ok"
       THEN /\ table' = ApplyUpdate(table, requests[i])
            /\ IF component = "SpeciesCard"
               THEN CardAfterSuccess(requests[i].input)
               ELSE EditAfterSuccess
       ELSE /\ table' = table
            /\ AfterError(answer)
    /\ UNCHANGED <<component, species, userId, edit, edits>>

Succeed == \E i \in 1..Len(requests) : Respond(i, "ok")

Fail == \E i \in 1..Len(requests), m \in ErrorMessages : Respond(i, m)

Next ==
    \/ LearnMore
    \/ DismissDetails
    \/ EditClick
    \/ DismissEdit
    \/ Cancel
    \/ ChangeText
    \/ ChangeKingdom
    \/ ChangePopulation
    \/ Submit
    \/ Succeed
    \/ Fail

Spec == Init /\ [][Next]_vars

(* ------------------------------------------------------------------ *)
(* Vocabulary of the properties.                                       *)
(* ------------------------------------------------------------------ *)
Sent == 1..Len(requests)

\* this step is the collaborator's answer to request i
AnsweredOk(i) == requests[i].status = "pending" /\ requests'[i].status = "ok"
AnsweredError(i) == requests[i].status = "pending" /\ requests'[i].status \in ErrorMessages

\* a text that trims to the empty string
IsBlank(v) == v.t = "string" /\ Trim(v.s) = <<>>

\* a value a form holds for a field the user left empty
IsAbsent(v) == IsNullish(v) \/ v = Str(<<>>)

InEditForm == component = "EditSpeciesDialog"

(* ------------------------------------------------------------------ *)
(* C1. In both forms, a submit whose scientific_name trims to the      *)
(* empty string, or whose kingdom is not one of the six, fails         *)
(* validation and sends no update request: no request that was sent    *)
(* carries such form values.                                           *)
(* ------------------------------------------------------------------ *)
C1_InvalidInputSendsNoUpdate ==
    \A i \in Sent :
        /\ ~IsAbsent(requests[i].values.scientific_name)
        /\ ~IsBlank(requests[i].values.scientific_name)
        /\ KingdomOk(requests[i].values.kingdom)

(* ------------------------------------------------------------------ *)
(* C2. After any sequence of submits every stored record has one of    *)
(* the six kingdoms and a non-empty scientific_name.                   *)
(* ------------------------------------------------------------------ *)
C2_StoredRecordsValid ==
    \A i \in Ids :
        /\ KingdomOk(table[i].kingdom)
        /\ table[i].scientific_name.t = "string"
        /\ table[i].scientific_name.s # <<>>

(* ------------------------------------------------------------------ *)
(* C3. In the Edit Form, every accepted input is sent with             *)
(* scientific_name trimmed of surrounding whitespace, and with         *)
(* common_name (and description) null when the typed text trims to     *)
(* empty and trimmed otherwise; never as an empty string.              *)
(* ------------------------------------------------------------------ *)
SentAsTrimmedOrNull(raw, sent) ==
    IF IsAbsent(raw) \/ IsBlank(raw) THEN sent = Null ELSE sent = Str(Trim(raw.s))

C4_ErrorStep ==
    \A i \in Sent :
        AnsweredError(i) =>
            /\ Len(toasts') = Len(toasts) + 1
            /\ SubSeq(toasts', 1, Len(toasts)) = toasts
            /\ toasts'[Len(toasts')].description = requests'[i].status
            /\ edit' = edit
            /\ EditDialogShown' = EditDialogShown
            /\ values' = values
            /\ refreshes' = refreshes

C4_ErrorShownDialogKept == [][C4_ErrorStep]_vars

\* a request was answered with an error while the edit dialog was open: the
\* message is on screen, the dialog still open, the form as it was submitted
C4_Witness ==
    \E i \in Sent :
        /\ requests[i].status \in ErrorMessages
        /\ \E k \in 1..Len(toasts) : toasts[k].description = requests[i].status
        /\ EditDialogShown
        /\ values = requests[i].values
        /\ refreshes = 0

(* ------------------------------------------------------------------ *)
(* C5. When the update request succeeds the edit dialog is closed:     *)
(* after the handler has run, the dialog holding the form is no longer *)
(* shown, in both components.                                          *)
(* ------------------------------------------------------------------ *)
C5_SuccessStep == \A i \in Sent : AnsweredOk(i) => ~EditDialogShown'

C5_SuccessClosesEditDialog == [][C5_SuccessStep]_vars

(* ------------------------------------------------------------------ *)
(* C6. Each successful update sends the refresh signal exactly once,   *)
(* and a rejected or failed submit sends none: the number of refresh   *)
(* signals equals the number of successful updates.                    *)
(* ------------------------------------------------------------------ *)
Successes == {i \in Sent : requests[i].status = "ok"}

C6_RefreshPerSuccess == refreshes = Cardinality(Successes)

(* ------------------------------------------------------------------ *)
(* C7. When the update request succeeds the form is reset to the       *)
(* submitted data: each field then shows the value that was sent, not  *)
(* the value typed and not the record's value at mount.                *)
(* ------------------------------------------------------------------ *)
C7_SuccessStep ==
    \A i \in Sent :
        AnsweredOk(i) =>
            \A f \in Fields : Displayed(values'[f]) = Displayed(requests[i].payload[f])

C7_SuccessResetsForm == [][C7_SuccessStep]_vars

(* ------------------------------------------------------------------ *)
(* C8. In the Edit Form, validation fails for every total_population   *)
(* that is <= 0 or not an integer, and a form whose population is      *)
(* absent passes validation and is sent: no request carries such a     *)
(* number, and an empty population field never shows a message.        *)
(* ------------------------------------------------------------------ *)
IsBadPopulation(v) == v.t = "number" /\ (v.h <= 0 \/ v.h % 2 # 0)

C8_PopulationOptional ==
    InEditForm =>
        /\ \A i \in Sent : ~IsBadPopulation(requests[i].values.total_population)
        /\ IsAbsent(values.total_population) => "total_population" \notin errors

(* ------------------------------------------------------------------ *)
(* C9. In the Edit Form, validation fails for every image that is      *)
(* non-empty and not a well-formed URL, and a form whose image is      *)
(* absent (the record has none and the field is left empty) passes     *)
(* validation and is sent: no request carries such a text, and the     *)
(* empty image field of a record without image shows no message.       *)
(* ------------------------------------------------------------------ *)
IsBadImage(v) == v.t = "string" /\ v.s # <<>> /\ ~IsURL(v.s)

C9_ImageOptional ==
    InEditForm =>
        /\ \A i \in Sent : ~IsBadImage(requests[i].values.image)
        /\ IsAbsent(Prop.image) /\ IsAbsent(values.image) => "image" \notin errors

(* ------------------------------------------------------------------ *)
(* C10. A successful submit changes only the record the form was       *)
(* opened for: every other record of the table is unchanged by the     *)
(* update, and the edited record takes the values sent.                *)
(* ------------------------------------------------------------------ *)
C10_SuccessStep ==
    \A i \in Sent :
        AnsweredOk(i) =>
            /\ \A j \in Ids \ {species} : table'[j] = table[j]
            /\ table'[species] = Patch(table[species], requests[i].payload)

C10_OnlyEditedRecordChanges == [][C10_SuccessStep]_vars

(* ------------------------------------------------------------------ *)
(* C11. No mutual exclusion guards submission: while an update request *)
(* is unanswered, a submit of the form (shown, with values the         *)
(* resolver accepts, fewer than MaxSubmits requests sent) sends a      *)
(* further request, and every unanswered request can be answered next, *)
(* with success or with an error, whatever else is in flight: two      *)
(* requests are in flight at once and complete in either order.        *)
(* ------------------------------------------------------------------ *)
Pending == {i \in Sent : requests[i].status = "pending"}

\* the submit step that sends a request
SubmitSends == Submit /\ Len(requests') = Len(requests) + 1

C11_NoSubmitLock ==
    /\ (/\ Pending # {}
        /\ EditDialogShown
        /\ ResolverIssues(component, values) = {}
        /\ Len(requests) < MaxSubmits) => ENABLED SubmitSends
    /\ \A i \in Pending :
        /\ ENABLED Respond(i, "ok")
        /\ \A m \in ErrorMessages : ENABLED Respond(i, m)

\* SpeciesCard sent two requests while the first was unanswered, and the second
\* was answered first
C11_Witness ==
    /\ component = "SpeciesCard"
    /\ Len(requests) = 2
    /\ requests[1].status = "pending"
    /\ requests[2].status # "pending"

(* ------------------------------------------------------------------ *)
(* C12. The details dialog and the edit dialog are each shown exactly  *)
(* when their own flag is true; initially both are closed; and the     *)
(* actions that open or close one dialog (Learn More, Edit, Cancel,    *)
(* dismissing a dialog) leave the other dialog's flag unchanged.       *)
(* ------------------------------------------------------------------ *)
\* a step of one of the dialog buttons: only a flag changes
DialogStep ==
    /\ <<open, edit>>' # <<open, edit>>
    /\ UNCHANGED <<values, errors, table, requests, toasts, refreshes, edits>>

C12_FlagFrame == DialogStep => (open' = open \/ edit' = edit)

C12_DialogsFollowFlags ==
    /\ DetailsDialogShown <=> open
    /\ EditDialogShown <=> edit

\* the same two statements of SpeciesCard alone, where they hold
C12_CardDialogsFollowFlags == component = "SpeciesCard" => C12_DialogsFollowFlags

C12_CardFlagFrame == [][component = "SpeciesCard" => C12_FlagFrame]_vars

====
